---- MODULE Spec2Model ----
(***************************************************************************)
(* yee-haw: a batch file organiser.  One run of main() is                  *)
(*   Scanner::scan -> Meta::process (hash pass, path pass)                 *)
(*   -> Store::insert_batch -> Mover::move_files / Mover::move_duplicates. *)
(* The file system is part of the state: data files (fs), directories     *)
(* (dirs) and the .yeehaw metadata files (yaml).  As with the default      *)
(* arguments (source "./", destination "./out") the destination directory  *)
(* lies inside the source tree, so a run may find what an earlier run      *)
(* left there; a tree with nothing under the destination behaves as one    *)
(* whose destination is elsewhere.                                         *)
(***************************************************************************)
EXTENDS Integers, Sequences, FiniteSets, TLC

\* ------------------------------------------------------------------ bounds
\* Most files in the source tree at the start of a run.
MaxFiles == 3
\* Most file-system operations the environment lets fail in one run.
MaxFaults == 1
\* Most Store::insert calls in the stand-alone Store specification.
MaxInserts == 4
\* Most records in the stand-alone Meta specification.
MaxRecords == 3

\* --------------------------------------------------------------- universe
None == "None"

source_dir == "/in"
destination_dir == "/in/out"

\* Sub-directories of source_dir that hold files; the last one is a group
\* folder an earlier run made.
SourceDirs == {"a", "b", "out/group_0001"}
\* File stems; "A" and "a" differ only in case.
Stems == {"A", "a"}
Extensions == {"txt"}
\* The files a source tree may hold, as (directory, stem, extension).
SourceFiles ==
    { <<"a", "A", "txt">>, <<"a", "a", "txt">>, <<"b", "A", "txt">>,
      <<"out/group_0001", "A", "txt">> }
\* File contents, as byte sequences: "x" and "y".
Contents == {<<120>>, <<121>>}

RenameStyles == {"None", "Lowercase", "Incremental", "ShortHash", "Combined"}
GroupStyles == {"ShortHash", "Incremental"}

\* ------------------------------------------------------------ text helpers
Digit(n) == SubSeq("0123456789", n + 1, n + 1)

RECURSIVE Dec(_)
Dec(n) == IF n < 10 THEN Digit(n) ELSE Dec(n \div 10) \o Digit(n % 10)

RECURSIVE PadZero(_, _)
PadZero(s, w) == IF Len(s) >= w THEN s ELSE PadZero("0" \o s, w)

\* A format without zero padding.
FmtUnpadded(n) == Dec(n)

\* format!("{:04}", n) and format!("{:03}", n)
Fmt04(n) == PadZero(Dec(n), 4)
Fmt03(n) == PadZero(Dec(n), 3)

HexDigit(n) == SubSeq("0123456789abcdef", n + 1, n + 1)

Hex4(x) ==
    HexDigit(x \div 4096) \o HexDigit((x \div 256) % 16)
        \o HexDigit((x \div 16) % 16) \o HexDigit(x % 16)

\* A u64 is four 16-bit limbs, most significant first.
\* format!("{:016x}", h)
Hex16(h) == Hex4(h[1]) \o Hex4(h[2]) \o Hex4(h[3]) \o Hex4(h[4])

\* u64::to_le_bytes
to_le_bytes(h) ==
    << h[4] % 256, h[4] \div 256, h[3] % 256, h[3] \div 256,
       h[2] % 256, h[2] \div 256, h[1] % 256, h[1] \div 256 >>

Upper == "ABCDEFGHIJKLMNOPQRSTUVWXYZ"
Lower == "abcdefghijklmnopqrstuvwxyz"

LowerChar(c) ==
    IF \E k \in 1..26 : SubSeq(Upper, k, k) = c
    THEN LET k == CHOOSE j \in 1..26 : SubSeq(Upper, j, j) = c
         IN SubSeq(Lower, k, k)
    ELSE c

\* str::to_lowercase
RECURSIVE to_lowercase(_)
to_lowercase(s) ==
    IF Len(s) = 0 THEN s
    ELSE LowerChar(SubSeq(s, 1, 1)) \o to_lowercase(SubSeq(s, 2, Len(s)))

\* s[0..n] of a Rust string
Prefix(s, n) == SubSeq(s, 1, n)

\* format!("{}/{}.{}", dir, name, ext)
FilePath(dir, name, ext) == dir \o "/" \o name \o "." \o ext

\* Path::join
Join(dir, name) == dir \o "/" \o name

\* ------------------------------------------------------------------- hash
\* xxhash_rust::xxh3::xxh3_64 is a library function: a deterministic,
\* order-sensitive 64-bit digest of a byte sequence.  It is computed here by
\* a multiplicative fold over the bytes, one 16-bit limb at a time.
Xxh3Init == <<40503, 31161, 32586, 31765>>
Xxh3Mult == <<251, 241, 239, 233>>

Xxh3Step(acc, b) == [k \in 1..4 |-> (acc[k] * Xxh3Mult[k] + b + k) % 65536]

RECURSIVE Xxh3Fold(_, _)
Xxh3Fold(acc, bytes) ==
    IF bytes = <<>> THEN acc
    ELSE Xxh3Fold(Xxh3Step(acc, Head(bytes)), Tail(bytes))

xxh3_64(bytes) == Xxh3Fold(Xxh3Init, bytes)

xxh3_64_with_seed(data, seed) == xxh3_64(to_le_bytes(seed) \o data)

\* The chunks BufReader::fill_buf hands out: a file shorter than the
\* reader's buffer arrives as one chunk, an empty file as none.
Chunks(content) == IF content = <<>> THEN <<>> ELSE <<content>>

RECURSIVE HashChunks(_, _)
HashChunks(hasher, chunks) ==
    IF chunks = <<>> THEN hasher
    ELSE HashChunks(xxh3_64_with_seed(Head(chunks), hasher), Tail(chunks))

\* Meta::hash_file on a file that opens and reads.
hash_file(content) == Hex16(HashChunks(xxh3_64(<<>>), Chunks(content)))

\* The ways a reader may hand out a content: any sequence of non-empty
\* chunks that concatenate to it (Read::read may return fewer bytes than the
\* buffer holds).
RECURSIVE Splits(_)
Splits(content) ==
    IF content = <<>> THEN {<<>>}
    ELSE UNION { { <<SubSeq(content, 1, k)>> \o rest :
                     rest \in Splits(SubSeq(content, k + 1, Len(content))) } :
                 k \in 1..Len(content) }

\* Meta::hash_file on a file the reader hands out as the given chunks.
hash_chunks(chunks) == Hex16(HashChunks(xxh3_64(<<>>), chunks))

\* ------------------------------------------------------------- YeeFile
\* YeeFile::generate_short_id: an 8-character alphanumeric code chosen by
\* the hash of the path.  The code is the one a fresh ShortCodeGenerator
\* (crate tiny_id) yields after hash % 1000 steps; the generator is taken
\* here to start from the same state at every call, as the comment in the
\* source expects ("a consistent ID for the same path").
generate_short_id(path) ==
    CASE path = "a" -> "k3Xq9aB1"
      [] path = "b" -> "Zr70mPw4"
      [] path = "out/group_0001" -> "Qd5vT2yL"
      [] OTHER -> "m8Hc1Wf6"

\* YeeFile::from_path.  id is not a field of the program's record: it is the
\* record's position in the scan output, kept to tell apart records whose
\* fields have become equal.
from_path(dir, stem, ext, id) ==
    [ filename |-> stem,
      extension |-> ext,
      source_full_path |-> Join(source_dir, dir),
      destination_full_path |-> "",
      source_local_path |-> dir,
      destination_local_path |-> "",
      hash |-> None,
      group_id |-> generate_short_id(dir),
      id |-> id ]

\* The path main's later stages build for a record's source file.
SourcePath(file) ==
    FilePath(file.source_full_path, file.filename, file.extension)

\* ------------------------------------------------------------ directories
\* Positions of the '/' separators of a path that end a proper ancestor.
Cuts(path) == { k \in 2..Len(path) : SubSeq(path, k, k) = "/" }

\* fs::create_dir_all(path): the path and each of its ancestors.
AllDirs(path) ==
    IF path = "" \/ path = "/" THEN {}
    ELSE { SubSeq(path, 1, k - 1) : k \in Cuts(path) } \cup {path}

\* Path::strip_prefix on two textual paths; None when base is no prefix.
strip_prefix(path, base) ==
    IF path = base THEN ""
    ELSE IF /\ Len(path) > Len(base) + 1
            /\ SubSeq(path, 1, Len(base) + 1) = base \o "/"
         THEN SubSeq(path, Len(base) + 2, Len(path))
         ELSE None

\* Path::parent of a textual path.
Parent(path) ==
    LET p == IF Len(path) > 1 /\ SubSeq(path, Len(path), Len(path)) = "/"
             THEN SubSeq(path, 1, Len(path) - 1) ELSE path
        cuts == { k \in 1..Len(p) : SubSeq(p, k, k) = "/" }
        last == CHOOSE k \in cuts : \A j \in cuts : j <= k
    IN IF cuts = {} THEN ""
       ELSE IF last = 1 THEN "/"
       ELSE SubSeq(p, 1, last - 1)

\* ------------------------------------------------------------------ state
VARIABLES
    args,            \* YeeArgs
    fs,              \* data files: path -> bytes
    dirs,            \* the directories that exist
    yaml,            \* .yeehaw files: path -> what was serialised
    files,           \* main's files vector
    group_counters,  \* Meta.group_counters
    file_counters,   \* Meta.file_counters
    originals,       \* Store.originals
    duplicates,      \* Store.duplicates
    hash_map,        \* Store.hash_map
    pc,              \* where main is
    idx,             \* index of the loop main is in
    batch,           \* the vector the running Mover call iterates
    todo_groups,     \* groups of the running Mover call without metadata yet
    process_err,     \* Meta::process returned Err
    faults,          \* failures the environment has injected
    op_failed,       \* some file-system call of the run returned Err
    op,              \* what the last Mover file step did
    ret,             \* what the last Store::insert returned
    inserted,        \* the records passed to Store::insert, in order
    scanned,         \* the records as Scanner::scan returned them
    fs0,             \* the data files at the start of the run
    query,           \* the glob pattern Scanner::scan was called with
    queue,           \* Scanner::scan's queue of directories still to read
    unreadable,      \* directories whose read_dir fails, entries that are Err
    reads            \* the directories Scanner::scan has read, in order

vars == << args, fs, dirs, yaml, files, group_counters, file_counters,
           originals, duplicates, hash_map, pc, idx, batch, todo_groups,
           process_err, faults, op_failed, op, ret, inserted, scanned, fs0,
           query, queue, unreadable, reads >>

metaVars == << group_counters, file_counters >>
storeVars == << originals, duplicates, hash_map, ret, inserted >>
diskVars == << fs, dirs, yaml >>
scanVars == << query, queue, unreadable, reads >>

EmptyMap == [x \in {} |-> 0]
NoOp == [kind |-> "none"]

ArgsSet ==
    [ dry : BOOLEAN, track_duplicates : BOOLEAN, rename_style : RenameStyles,
      group_style : GroupStyles, copy_mode : BOOLEAN ]

SourcePaths == { FilePath(Join(source_dir, f[1]), f[2], f[3]) : f \in SourceFiles }

\* The directories of a tree of files.
TreeDirs(tree) ==
    {source_dir} \cup UNION { AllDirs(Parent(p)) : p \in DOMAIN tree }

\* The source trees a run can start from.
Trees ==
    UNION { [P -> Contents] : P \in { Q \in SUBSET SourcePaths : Cardinality(Q) <= MaxFiles } }

Init ==
    /\ args \in ArgsSet
    /\ fs \in Trees
    /\ fs0 = fs
    /\ dirs = TreeDirs(fs)
    /\ yaml = EmptyMap
    /\ files = <<>>
    /\ group_counters = EmptyMap
    /\ file_counters = EmptyMap
    /\ originals = <<>>
    /\ duplicates = <<>>
    /\ hash_map = EmptyMap
    /\ pc = "scan"
    /\ idx = 0
    /\ batch = <<>>
    /\ todo_groups = {}
    /\ process_err = FALSE
    /\ faults = 0
    /\ op_failed = FALSE
    /\ op = NoOp
    /\ ret = FALSE
    /\ inserted = <<>>
    /\ scanned = <<>>
    /\ query = "*"
    /\ queue = <<>>
    /\ unreadable = {}
    /\ reads = <<>>


\* The distinct group ids of a vector of records.
GroupsOf(v) == { v[k].group_id : k \in 1..Len(v) }

\* ------------------------------------------------------------------ Scanner
\* The regular files of the source tree, as (directory, stem, extension).
Entries ==
    { e \in SourceFiles : FilePath(Join(source_dir, e[1]), e[2], e[3]) \in DOMAIN fs }

\* Scanner::scan reads each directory once and pushes its files together:
\* the files of one directory are adjacent in the output, in any order.
ScanOrders ==
    LET n == Cardinality(Entries)
    IN { o \in [1..n -> Entries] :
           /\ \A i, j \in 1..n : i # j => o[i] # o[j]
           /\ \A i, j, k \in 1..n :
                (i < j /\ j < k /\ o[i][1] = o[k][1]) => o[j][1] = o[i][1] }

\* main, step 1: scan (query is the default "*"), and return when nothing
\* was found.
Scan ==
    /\ pc = "scan"
    /\ \E o \in ScanOrders :
         /\ files' = [k \in DOMAIN o |-> from_path(o[k][1], o[k][2], o[k][3], k)]
         /\ scanned' = files'
    /\ pc' = IF files' = <<>> THEN "done" ELSE "hash"
    /\ idx' = 1
    /\ UNCHANGED << scanVars, args, diskVars, metaVars, storeVars, batch, todo_groups,
                    process_err, faults, op_failed, op, fs0 >>

\* ------------------------------------------------------------------- Meta
\* Meta::process, first pass, one record: a file that cannot be opened or
\* read keeps hash = None and the pass goes on.
HashStep ==
    /\ pc = "hash"
    /\ idx \in 1..Len(files)
    /\ LET file == files[idx]
           path == SourcePath(file)
       IN \/ /\ path \in DOMAIN fs
             /\ \E chunks \in Splits(fs[path]) :
                  files' = [files EXCEPT ![idx].hash = hash_chunks(chunks)]
             /\ UNCHANGED << faults, op_failed >>
          \/ /\ faults < MaxFaults
             /\ faults' = faults + 1
             /\ op_failed' = TRUE
             /\ UNCHANGED files
    /\ IF idx < Len(files)
       THEN /\ idx' = idx + 1
            /\ pc' = "hash"
       ELSE /\ idx' = 1
            /\ pc' = "paths"
    /\ UNCHANGED << scanVars, args, diskVars, metaVars, storeVars, batch, todo_groups,
                    process_err, op, scanned, fs0 >>

\* A Meta that gives a group a fresh number every time it meets it.
GroupCountersAfterRenumbering(gc, group_id) ==
    IF args.group_style = "Incremental"
    THEN [g \in DOMAIN gc \cup {group_id} |->
            IF g = group_id THEN Cardinality(DOMAIN gc) + 1 ELSE gc[g]]
    ELSE gc

\* Meta::get_group_folder_name: the counters after the call ...
GroupCountersAfter(gc, group_id) ==
    IF args.group_style = "Incremental" /\ group_id \notin DOMAIN gc
    THEN gc @@ (group_id :> Cardinality(DOMAIN gc) + 1)
    ELSE gc

\* ... and the folder name it returns.
get_group_folder_name(gc, group_id) ==
    IF args.group_style = "ShortHash"
    THEN group_id
    ELSE "group_" \o Fmt04(IF group_id \in DOMAIN gc THEN gc[group_id] ELSE 0)

\* Whether Meta::get_destination_filename counts the file in file_counters.
CountsFile(file) ==
    \/ args.rename_style = "Incremental"
    \/ /\ args.rename_style = "Combined"
       /\ (args.group_style = "Incremental" \/ file.hash = None)

\* A Meta with one file counter for all groups: a record gets the number
\* after the largest one given so far.
FileCountersAfterShared(fc, file) ==
    IF CountsFile(file)
    THEN LET most == IF DOMAIN fc = {} THEN 0
                     ELSE CHOOSE n \in { fc[g] : g \in DOMAIN fc } :
                            \A g \in DOMAIN fc : fc[g] <= n
         IN [g \in DOMAIN fc \cup {file.group_id} |->
                IF g = file.group_id THEN most + 1 ELSE fc[g]]
    ELSE fc

\* Meta::get_destination_filename: the counters after the call ...
FileCountersAfter(fc, file) ==
    IF CountsFile(file)
    THEN LET old == IF file.group_id \in DOMAIN fc THEN fc[file.group_id] ELSE 0
         IN [g \in DOMAIN fc \cup {file.group_id} |->
                IF g = file.group_id THEN old + 1 ELSE fc[g]]
    ELSE fc

\* A Meta whose ShortHash style names a record without a hash after its
\* group id.
get_destination_filenameNoFallback(file, gc, fc) ==
    CASE args.rename_style = "None" -> file.filename
      [] args.rename_style = "Lowercase" -> to_lowercase(file.filename)
      [] args.rename_style = "Incremental" -> Fmt04(fc[file.group_id])
      [] args.rename_style = "ShortHash" ->
            IF file.hash # None THEN Prefix(file.hash, 8) ELSE file.group_id
      [] args.rename_style = "Combined" ->
            IF args.group_style = "ShortHash"
            THEN IF file.hash # None
                 THEN Prefix(file.group_id, 6) \o "_" \o Prefix(file.hash, 8)
                 ELSE Prefix(file.group_id, 6) \o "_" \o Fmt04(fc[file.group_id])
            ELSE Fmt03(IF file.group_id \in DOMAIN gc THEN gc[file.group_id] ELSE 0)
                    \o "_" \o Fmt04(fc[file.group_id])

\* ... and the name it returns; gc and fc are the counters after the call.
get_destination_filename(file, gc, fc) ==
    CASE args.rename_style = "None" -> file.filename
      [] args.rename_style = "Lowercase" -> to_lowercase(file.filename)
      [] args.rename_style = "Incremental" -> Fmt04(fc[file.group_id])
      [] args.rename_style = "ShortHash" ->
            IF file.hash # None THEN Prefix(file.hash, 8) ELSE file.filename
      [] args.rename_style = "Combined" ->
            IF args.group_style = "ShortHash"
            THEN IF file.hash # None
                 THEN Prefix(file.group_id, 6) \o "_" \o Prefix(file.hash, 8)
                 ELSE Prefix(file.group_id, 6) \o "_" \o Fmt04(fc[file.group_id])
            ELSE Fmt03(IF file.group_id \in DOMAIN gc THEN gc[file.group_id] ELSE 0)
                    \o "_" \o Fmt04(fc[file.group_id])

\* A main that runs the Store stage whatever track_duplicates says.
AfterProcessAlwaysStore(fv) ==
    /\ pc' = "insert"
    /\ idx' = 1
    /\ UNCHANGED << batch, todo_groups >>

\* What main does once Meta::process has returned, Ok or Err (an Err is
\* logged and main goes on), given the files vector.
AfterProcess(fv) ==
    IF args.track_duplicates
    THEN /\ pc' = "insert"
         /\ idx' = 1
         /\ UNCHANGED << batch, todo_groups >>
    ELSE IF args.dry
    THEN /\ pc' = "done"
         /\ idx' = 1
         /\ UNCHANGED << batch, todo_groups >>
    ELSE /\ pc' = "files_meta"
         /\ idx' = 1
         /\ batch' = fv
         /\ todo_groups' = GroupsOf(fv)

\* Meta::process, second pass, one record: Meta::set_destination_paths.
\* A directory that cannot be created ends the pass with Err.
PathStep ==
    /\ pc = "paths"
    /\ idx \in 1..Len(files)
    /\ LET file == files[idx]
           gc == GroupCountersAfter(group_counters, file.group_id)
           fc == FileCountersAfter(file_counters, file)
           group_folder == get_group_folder_name(gc, file.group_id)
           dest_filename == get_destination_filename(file, gc, fc)
           dest_path == Join(destination_dir, group_folder)
       IN /\ group_counters' = gc
          /\ file_counters' = fc
          /\ \/ /\ AllDirs(dest_path) \cap DOMAIN fs = {}
                /\ dirs' = dirs \cup AllDirs(dest_path)
                /\ files' = [files EXCEPT
                               ![idx].destination_full_path = dest_path,
                               ![idx].destination_local_path = group_folder,
                               ![idx].filename = dest_filename]
                /\ UNCHANGED << faults, op_failed, process_err >>
                /\ IF idx < Len(files)
                   THEN /\ idx' = idx + 1
                        /\ pc' = "paths"
                        /\ UNCHANGED << batch, todo_groups >>
                   ELSE AfterProcess(files')
             \/ /\ faults < MaxFaults
                /\ faults' = faults + 1
                /\ op_failed' = TRUE
                /\ process_err' = TRUE
                /\ UNCHANGED << dirs, files >>
                /\ AfterProcess(files)
    /\ UNCHANGED << scanVars, args, fs, yaml, storeVars, op, scanned, fs0 >>


\* ------------------------------------------------------------------ Store
\* A Store that also compares file names: a record is a duplicate only of an
\* original with its hash and its name.
IsDuplicateSameName(file) ==
    /\ file.hash # None
    /\ file.hash \in DOMAIN hash_map
    /\ originals[hash_map[file.hash] + 1].filename = file.filename

\* Store::insert: whether the record is a duplicate (the value it returns).
IsDuplicate(file) == file.hash # None /\ file.hash \in DOMAIN hash_map

\* A Store that indexes an absent hash like any other.
HashMapAfterAnyHash(file) ==
    IF file.hash \notin DOMAIN hash_map
    THEN hash_map @@ (file.hash :> Len(originals))
    ELSE hash_map

\* Store::insert: the hash index after the call; a new hash is mapped to the
\* position its record takes in originals (counted from 0).
HashMapAfter(file) ==
    IF file.hash # None /\ file.hash \notin DOMAIN hash_map
    THEN hash_map @@ (file.hash :> Len(originals))
    ELSE hash_map

\* A Store that keeps a duplicate in originals as well.
insertKeepingBoth(file) ==
    /\ ret' = IsDuplicate(file)
    /\ duplicates' = IF IsDuplicate(file) THEN Append(duplicates, file) ELSE duplicates
    /\ originals' = Append(originals, file)
    /\ hash_map' = HashMapAfter(file)
    /\ inserted' = Append(inserted, file)

\* Store::insert
insert(file) ==
    /\ ret' = IsDuplicate(file)
    /\ duplicates' = IF IsDuplicate(file) THEN Append(duplicates, file) ELSE duplicates
    /\ originals' = IF IsDuplicate(file) THEN originals ELSE Append(originals, file)
    /\ hash_map' = HashMapAfter(file)
    /\ inserted' = Append(inserted, file)

\* A main that hands the originals to the Mover as soon as one record has
\* been inserted.
InsertStepEager ==
    /\ pc = "insert"
    /\ idx \in 1..Len(files)
    /\ insert(files[idx])
    /\ IF args.dry
       THEN /\ idx' = 1
            /\ pc' = "done"
            /\ UNCHANGED << batch, todo_groups >>
       ELSE /\ idx' = 1
            /\ pc' = "files_meta"
            /\ batch' = originals'
            /\ todo_groups' = GroupsOf(originals')
    /\ UNCHANGED << scanVars, args, diskVars, files, metaVars, process_err, faults,
                    op_failed, op, scanned, fs0 >>

\* Store::insert_batch, one record; after the last one main reports (dry) or
\* starts Mover::move_files on the originals.
InsertStep ==
    /\ pc = "insert"
    /\ idx \in 1..Len(files)
    /\ insert(files[idx])
    /\ IF idx < Len(files)
       THEN /\ idx' = idx + 1
            /\ pc' = "insert"
            /\ UNCHANGED << batch, todo_groups >>
       ELSE IF args.dry
       THEN /\ idx' = 1
            /\ pc' = "done"
            /\ UNCHANGED << batch, todo_groups >>
       ELSE /\ idx' = 1
            /\ pc' = "files_meta"
            /\ batch' = originals'
            /\ todo_groups' = GroupsOf(originals')
    /\ UNCHANGED << scanVars, args, diskVars, files, metaVars, process_err, faults,
                    op_failed, op, scanned, fs0 >>


\* ------------------------------------------------------------------ Mover
Put(f, k, v) == [p \in DOMAIN f \cup {k} |-> IF p = k THEN v ELSE f[p]]
Remove(f, k) == [p \in DOMAIN f \ {k} |-> f[p]]

\* fs::create_dir_all succeeds unless a regular file is in the way.
MkdirOk(path) == AllDirs(path) \cap DOMAIN fs = {}

\* fs::copy succeeds when the source is a file and the destination can be
\* one: not a directory, nor a path that names a directory.
CopyOk(src, dst) ==
    /\ src \in DOMAIN fs
    /\ dst \notin dirs
    /\ SubSeq(dst, Len(dst), Len(dst)) # "/"

\* What fs::copy leaves at the destination.  It opens the destination with
\* truncation before it reads: copying a file onto itself leaves it empty
\* on the platforms that do so, and as it was on the others.
CopyResults(src, dst) ==
    IF src = dst THEN {<<>>, fs[src]} ELSE {fs[src]}

\* What is serialised for a record: the fields of YeeFile.
Serialize(file) ==
    [ filename |-> file.filename,
      extension |-> file.extension,
      source_full_path |-> file.source_full_path,
      destination_full_path |-> file.destination_full_path,
      source_local_path |-> file.source_local_path,
      destination_local_path |-> file.destination_local_path,
      hash |-> file.hash,
      group_id |-> file.group_id ]

\* The records of a vector that belong to a group, in order.
GroupFiles(v, group_id) == SelectSeq(v, LAMBDA f : f.group_id = group_id)

\* Mover::write_group_metadata: the .yeehaw directory of a group ...
YeehawDir(group_files) ==
    LET first_file == group_files[1]
        group_path == IF first_file.destination_local_path = ""
                      THEN destination_dir
                      ELSE Join(destination_dir, first_file.destination_local_path)
    IN Join(group_path, ".yeehaw")

MetadataPath(dir, group_id, file) ==
    Join(dir, group_id \o "_" \o file.filename \o "_" \o file.extension \o ".yaml")

SummaryPath(dir, group_id) == Join(dir, group_id \o "_summary.yaml")

GroupSummary(group_id, group_files) ==
    [ group_id |-> group_id,
      file_count |-> Len(group_files),
      files |-> [k \in DOMAIN group_files |->
                   group_files[k].filename \o "." \o group_files[k].extension] ]

\* A Mover that writes the per-file records of a group but no summary.
MetadataWritesNoSummary(group_id, group_files) ==
    LET dir == YeehawDir(group_files)
    IN [k \in DOMAIN group_files |->
          << MetadataPath(dir, group_id, group_files[k]),
             [kind |-> "file", body |-> Serialize(group_files[k])] >>]

\* ... and the files it writes, in order: one per record, then the summary.
MetadataWrites(group_id, group_files) ==
    LET dir == YeehawDir(group_files)
    IN [k \in DOMAIN group_files |->
          << MetadataPath(dir, group_id, group_files[k]),
             [kind |-> "file", body |-> Serialize(group_files[k])] >>]
       \o << << SummaryPath(dir, group_id),
                [kind |-> "summary", body |-> GroupSummary(group_id, group_files)] >> >>

RECURSIVE WriteAll(_, _)
WriteAll(y, writes) ==
    IF writes = <<>> THEN y
    ELSE WriteAll(Put(y, Head(writes)[1], Head(writes)[2]), Tail(writes))

\* Mover::move_files and Mover::move_duplicates, the metadata loop, one
\* group (the groups come in the order of a HashMap: any).  An error of a
\* directory or file creation is returned, and main returns it.
MetaStep ==
    /\ pc \in {"files_meta", "dupes_meta"}
    /\ \E g \in todo_groups :
         LET group_files == GroupFiles(batch, g)
             dir == YeehawDir(group_files)
             writes == MetadataWrites(g, group_files)
         IN \/ /\ MkdirOk(dir)
               /\ dirs' = dirs \cup AllDirs(dir)
               /\ yaml' = WriteAll(yaml, writes)
               /\ todo_groups' = todo_groups \ {g}
               /\ pc' = IF todo_groups' # {} THEN pc
                        ELSE IF pc = "files_meta" THEN "files_copy" ELSE "dupes_copy"
               /\ UNCHANGED << faults, op_failed >>
            \/ /\ faults < MaxFaults
               /\ faults' = faults + 1
               /\ op_failed' = TRUE
               /\ \E j \in 0..Len(writes) :
                    /\ dirs' = IF j = 0 THEN dirs ELSE dirs \cup AllDirs(dir)
                    /\ yaml' = IF j = 0 THEN yaml
                               ELSE WriteAll(yaml, SubSeq(writes, 1, j - 1))
               /\ pc' = "failed"
               /\ UNCHANGED todo_groups
    /\ idx' = 1
    /\ UNCHANGED << scanVars, args, fs, files, metaVars, storeVars, batch, process_err,
                    op, scanned, fs0 >>

\* A Mover that removes the source in move mode whatever the copy did.
RemovesSourceAnyway(copied) == ~args.copy_mode

\* Whether the source file is removed after the copy: in move mode, once
\* the copy has succeeded.
RemovesSource(copied) == copied /\ ~args.copy_mode

\* A Mover whose file loop stops at a failed copy as well.
AbortsOnCopyFailure(outcome) == outcome \in {"mkdir", "copy"}

\* Which failed call makes process_single_file / process_duplicate_file
\* return Err (the ? after fs::create_dir_all); the others are logged.
Aborts(outcome) == outcome = "mkdir"

\* The part Mover::process_single_file and Mover::process_duplicate_file
\* share: create the parent, copy, then remove the source in move mode.
\* outcome names the call that returned Err, if any.
Place(kind, file, src, dst) ==
    \E outcome \in {"ok", "mkdir", "copy", "remove"},
       data \in IF CopyOk(src, dst) THEN CopyResults(src, dst) ELSE {<<>>} :
      LET parent == Parent(dst)
          mkdir_ok == outcome # "mkdir"
          copied == outcome \in {"ok", "remove"}
          forced == \/ outcome = "mkdir" /\ ~MkdirOk(parent)
                    \/ outcome = "copy" /\ ~CopyOk(src, dst)
          copy_done == IF copied THEN Put(fs, dst, data) ELSE fs
          remove_tried == mkdir_ok /\ RemovesSource(copied)
      IN /\ mkdir_ok => MkdirOk(parent)
         /\ copied => CopyOk(src, dst)
         /\ outcome = "remove" => (copied /\ remove_tried)
         /\ (outcome # "ok" /\ ~forced) => faults < MaxFaults
         /\ faults' = IF outcome # "ok" /\ ~forced THEN faults + 1 ELSE faults
         /\ op_failed' = (op_failed \/ outcome # "ok")
         /\ dirs' = IF mkdir_ok THEN dirs \cup AllDirs(parent) ELSE dirs
         /\ fs' = IF remove_tried /\ outcome # "remove"
                  THEN Remove(copy_done, src) ELSE copy_done
         /\ op' = [ kind |-> kind, id |-> file.id, src |-> src, dst |-> dst,
                    outcome |-> outcome ]
         /\ IF Aborts(outcome)
            THEN /\ pc' = "failed"
                 /\ UNCHANGED << idx, batch, todo_groups >>
            ELSE IF idx < Len(batch)
            THEN /\ idx' = idx + 1
                 /\ UNCHANGED << pc, batch, todo_groups >>
            ELSE IF kind = "single" /\ args.track_duplicates /\ Len(duplicates) > 0
            THEN /\ pc' = "dupes_meta"
                 /\ idx' = 1
                 /\ batch' = duplicates
                 /\ todo_groups' = GroupsOf(duplicates)
            ELSE /\ pc' = "done"
                 /\ idx' = 1
                 /\ UNCHANGED << batch, todo_groups >>

\* Mover::process_single_file: the destination of an original.
SingleDestination(file) ==
    FilePath(file.destination_full_path, file.filename, file.extension)

\* Mover::process_duplicate_file: the destination of a duplicate.
DuplicateDestination(file) ==
    LET dupes_dir == Join(destination_dir, "_dupes")
        stripped == strip_prefix(file.destination_full_path, destination_dir)
        relative_dest_path == IF stripped # None THEN stripped
                              ELSE file.destination_local_path
    IN Join(dupes_dir, relative_dest_path)

\* Mover::move_files, the file loop, one record.
CopyStep ==
    /\ pc = "files_copy"
    /\ idx \in 1..Len(batch)
    /\ Place("single", batch[idx], SourcePath(batch[idx]), SingleDestination(batch[idx]))
    /\ UNCHANGED << scanVars, args, yaml, files, metaVars, storeVars, process_err,
                    scanned, fs0 >>

\* Mover::move_duplicates, the file loop, one record.
DupeStep ==
    /\ pc = "dupes_copy"
    /\ idx \in 1..Len(batch)
    /\ Place("dupe", batch[idx], SourcePath(batch[idx]), DuplicateDestination(batch[idx]))
    /\ UNCHANGED << scanVars, args, yaml, files, metaVars, storeVars, process_err,
                    scanned, fs0 >>

\* ---------------------------------------------------------- specification
Next == Scan \/ HashStep \/ PathStep \/ InsertStep \/ MetaStep \/ CopyStep \/ DupeStep

Spec == Init /\ [][Next]_vars


\* ------------------------------------------------- the Store on its own
\* Store::new followed by any sequence of Store::insert calls, on records as
\* Meta leaves them: any name, any group, a hash or none.
StoreArgs ==
    [ dry |-> FALSE, track_duplicates |-> TRUE, rename_style |-> "None",
      group_style |-> "ShortHash", copy_mode |-> FALSE ]

StoreRecords(id) ==
    { [ from_path(d, s, e, id) EXCEPT
          !.hash = h,
          !.destination_local_path = generate_short_id(d),
          !.destination_full_path = Join(destination_dir, generate_short_id(d)) ] :
        d \in SourceDirs, s \in Stems, e \in Extensions,
        h \in {None} \cup { hash_file(c) : c \in Contents } }

InitStore ==
    /\ args = StoreArgs
    /\ fs = EmptyMap
    /\ fs0 = EmptyMap
    /\ dirs = {source_dir}
    /\ yaml = EmptyMap
    /\ files = <<>>
    /\ group_counters = EmptyMap
    /\ file_counters = EmptyMap
    /\ originals = <<>>
    /\ duplicates = <<>>
    /\ hash_map = EmptyMap
    /\ pc = "store"
    /\ idx = 0
    /\ batch = <<>>
    /\ todo_groups = {}
    /\ process_err = FALSE
    /\ faults = 0
    /\ op_failed = FALSE
    /\ op = NoOp
    /\ ret = FALSE
    /\ inserted = <<>>
    /\ scanned = <<>>
    /\ query = "*"
    /\ queue = <<>>
    /\ unreadable = {}
    /\ reads = <<>>

StoreInsert ==
    /\ pc = "store"
    /\ Len(inserted) < MaxInserts
    /\ \E file \in StoreRecords(Len(inserted) + 1) : insert(file)
    /\ UNCHANGED << scanVars, args, diskVars, files, metaVars, pc, idx, batch, todo_groups,
                    process_err, faults, op_failed, op, scanned, fs0 >>

NextStore == StoreInsert

StoreSpec == InitStore /\ [][NextStore]_vars


\* -------------------------------------------------- the Meta on its own
\* Meta::new followed by the path pass of Meta::process over any vector of
\* records of distinct files, in any order (the records of one directory
\* need not be adjacent), each with the hash the first pass gave it or none
\* and with any group id: Meta reads group_id, never the directory.
MetaArgsSet ==
    { a \in ArgsSet : a.dry /\ ~a.track_duplicates /\ ~a.copy_mode }

\* The vectors of n records over distinct files.
\* What the first pass leaves in hash: nothing, or a digest.
MetaHashes == {None, hash_file(<<120>>)}

MetaGroupIds == { generate_short_id("a"), generate_short_id("b") }

MetaVectors(n) ==
    { [k \in 1..n |->
         [from_path(o[k][1], o[k][2], o[k][3], k) EXCEPT
            !.hash = h[k], !.group_id = g[k]]] :
        o \in { p \in [1..n -> SourceFiles] :
                  \A i, j \in 1..n : i # j => p[i] # p[j] },
        h \in [1..n -> MetaHashes],
        g \in [1..n -> MetaGroupIds] }

InitMeta ==
    /\ args \in MetaArgsSet
    /\ files \in UNION { MetaVectors(n) : n \in 1..MaxRecords }
    /\ scanned = files
    /\ query = "*"
    /\ queue = <<>>
    /\ unreadable = {}
    /\ reads = <<>>
    /\ fs = EmptyMap
    /\ fs0 = EmptyMap
    /\ dirs = {source_dir}
    /\ yaml = EmptyMap
    /\ group_counters = EmptyMap
    /\ file_counters = EmptyMap
    /\ originals = <<>>
    /\ duplicates = <<>>
    /\ hash_map = EmptyMap
    /\ pc = "paths"
    /\ idx = 1
    /\ batch = <<>>
    /\ todo_groups = {}
    /\ process_err = FALSE
    /\ faults = 0
    /\ op_failed = FALSE
    /\ op = NoOp
    /\ ret = FALSE
    /\ inserted = <<>>

NextMeta == PathStep

MetaSpec == InitMeta /\ [][NextMeta]_vars


\* ------------------------------------------------------------- properties
\* Whether a vector holds the record (records carry their input position).
Holds(v, file) == \E k \in 1..Len(v) : v[k] = file

\* The input positions of the records of a vector, in order.
Ids(v) == [k \in 1..Len(v) |-> v[k].id]

Increasing(ids) == \A i, j \in 1..Len(ids) : i < j => ids[i] < ids[j]

IsPrefix(v, w) == Len(v) <= Len(w) /\ SubSeq(w, 1, Len(v)) = v

\* C1: for every hash h, the first inserted record with hash h is in
\* originals and every later inserted record with hash h is in duplicates,
\* whatever the other fields of the records are.
C1_FirstIsOriginalLaterAreDuplicates ==
    \A k \in 1..Len(inserted) :
      LET file == inserted[k]
          first == \A j \in 1..(k - 1) : inserted[j].hash # file.hash
      IN file.hash # None =>
           IF first
           THEN Holds(originals, file) /\ ~Holds(duplicates, file)
           ELSE Holds(duplicates, file) /\ ~Holds(originals, file)

\* C1 witness: two records with one hash and different names and groups
\* have been inserted, the later one after a record in between.
C1_Witness ==
    /\ Len(inserted) >= 3
    /\ inserted[1].hash # None
    /\ inserted[3].hash = inserted[1].hash
    /\ inserted[3].filename # inserted[1].filename
    /\ inserted[3].group_id # inserted[1].group_id
    /\ Holds(originals, inserted[1])
    /\ Holds(duplicates, inserted[3])

\* C2: Store::insert of a record without a hash returns false and appends
\* the record to originals; duplicates and the hash index stay as they were.
C2_HashlessIsOriginal ==
    [][ (Len(inserted') = Len(inserted) + 1
           /\ inserted'[Len(inserted')].hash = None)
        => /\ ret' = FALSE
           /\ originals' = Append(originals, inserted'[Len(inserted')])
           /\ duplicates' = duplicates
           /\ hash_map' = hash_map ]_vars

\* C2 witness: a record without a hash was inserted last, after another
\* record without a hash, an original with a hash and a duplicate.
C2_Witness ==
    /\ Len(inserted) = 4
    /\ inserted[4].hash = None
    /\ \E k \in 1..3 : inserted[k].hash = None
    /\ Len(duplicates) = 1
    /\ Len(originals) = 3
    /\ originals[3] = inserted[4]
    /\ ret = FALSE

\* C3: originals and duplicates hold every inserted record exactly once
\* between them, each in input order, and an insert only appends: no record
\* leaves the collection it is in.
C3_PartitionInv ==
    /\ Len(originals) + Len(duplicates) = Len(inserted)
    /\ Increasing(Ids(originals))
    /\ Increasing(Ids(duplicates))
    /\ \A k \in 1..Len(originals) : originals[k] = inserted[originals[k].id]
    /\ \A k \in 1..Len(duplicates) : duplicates[k] = inserted[duplicates[k].id]
    /\ \A k \in 1..Len(inserted) :
         Holds(originals, inserted[k]) # Holds(duplicates, inserted[k])

C3_StablePartition ==
    /\ []C3_PartitionInv
    /\ [][ IsPrefix(originals, originals') /\ IsPrefix(duplicates, duplicates') ]_vars

\* C3 witness: both collections hold two records, and the originals are
\* not a prefix of the input.
C3_Witness ==
    /\ Len(originals) = 2
    /\ Len(duplicates) = 2
    /\ originals[2].id > duplicates[1].id


\* A step of Mover::process_single_file or Mover::process_duplicate_file.
Placing == pc \in {"files_copy", "dupes_copy"}

\* C4: in move mode a source file disappears only in the step whose copy
\* returned Ok; when the directory creation or the copy fails the files are
\* as before; when the removal fails the run goes on and the file is at its
\* source and at its destination.
C4_RemoveOnlyAfterCopy ==
    [][ /\ \A p \in DOMAIN fs :
             p \notin DOMAIN fs' =>
               /\ Placing /\ ~args.copy_mode
               /\ op'.src = p
               /\ op'.outcome = "ok"
        /\ (Placing /\ ~args.copy_mode /\ op'.outcome \in {"mkdir", "copy"})
             => fs' = fs
        /\ (Placing /\ ~args.copy_mode /\ op'.outcome = "ok")
             => /\ op'.src \in DOMAIN fs
                /\ op'.src \notin DOMAIN fs'
                /\ (op'.dst \in DOMAIN fs' \/ op'.dst = op'.src)
        /\ (Placing /\ ~args.copy_mode /\ op'.outcome = "remove")
             => /\ pc' # "failed"
                /\ op'.src \in DOMAIN fs'
                /\ op'.dst \in DOMAIN fs'
                /\ \/ idx' = idx + 1
                   \/ pc' \in {"dupes_meta", "done"} ]_vars

\* C4 witness: a move-mode run has ended; an earlier file was moved away
\* from the source tree and the removal of the last one, a duplicate,
\* failed, leaving it at both places.
C4_Witness ==
    /\ ~args.copy_mode
    /\ pc = "done"
    /\ op.kind = "dupe"
    /\ op.outcome = "remove"
    /\ op.src # op.dst
    /\ op.src \in DOMAIN fs
    /\ op.dst \in DOMAIN fs
    /\ \E p \in DOMAIN fs0 : p \notin DOMAIN fs

\* C5: in copy mode every file of the source tree is still there with its
\* content, at every point of the run.
C5_CopyModeKeepsSources ==
    args.copy_mode =>
      \A p \in DOMAIN fs0 : p \in DOMAIN fs /\ fs[p] = fs0[p]

\* The records main hands to Mover::move_files.
Placed == IF args.track_duplicates THEN originals ELSE files

\* The file a record was discovered from.
DiscoveredPath(file) == SourcePath(scanned[file.id])

\* C6: after a run that is not dry and in which the environment made no
\* operation fail, the content of the file each original was discovered
\* from is at destination_dir/{destination_local_path}/{filename}.{extension}.
C6_OriginalsPlaced ==
    (pc = "done" /\ ~args.dry /\ faults = 0) =>
      \A k \in 1..Len(Placed) :
        LET file == Placed[k]
            dst == FilePath(Join(destination_dir, file.destination_local_path),
                            file.filename, file.extension)
        IN dst \in DOMAIN fs /\ fs[dst] = fs0[DiscoveredPath(file)]

\* C7: after such a run with duplicate tracking, each duplicate is at
\* destination_dir/_dupes/{destination_local_path}/{filename}.{extension}.
C7_DuplicatesPlaced ==
    (pc = "done" /\ ~args.dry /\ args.track_duplicates /\ faults = 0) =>
      \A k \in 1..Len(duplicates) :
        LET file == duplicates[k]
            dst == FilePath(Join(Join(destination_dir, "_dupes"),
                                 file.destination_local_path),
                            file.filename, file.extension)
        IN dst \in DOMAIN fs /\ fs[dst] = fs0[DiscoveredPath(file)]

\* C8: a dry run creates, writes and deletes nothing.
C8_DryRunMutatesNothing ==
    args.dry => (fs = fs0 /\ dirs = TreeDirs(fs0) /\ yaml = EmptyMap)

\* C9: once the creation of a destination directory has failed in the path
\* pass, no later record gets its paths, no record is inserted into the
\* Store, and no file is copied, moved or described in metadata.
C9_DirFailureAborts ==
    process_err =>
      /\ \A j, k \in 1..Len(files) :
           (j < k /\ files[k].destination_full_path # "")
             => files[j].destination_full_path # ""
      /\ \E k \in 1..Len(files) : files[k].destination_full_path = ""
      /\ inserted = <<>>
      /\ fs = fs0
      /\ yaml = EmptyMap

\* C10: every record given to Store::insert, Mover::move_files or
\* Mover::move_duplicates has both destination paths set.
C10_PathsSetBeforeStoreAndMover ==
    /\ \A k \in 1..Len(inserted) :
         /\ inserted[k].destination_full_path # ""
         /\ inserted[k].destination_local_path # ""
    /\ \A k \in 1..Len(batch) :
         /\ batch[k].destination_full_path # ""
         /\ batch[k].destination_local_path # ""

\* C11: a failed copy in Mover::move_files or Mover::move_duplicates changes
\* no file and does not end the call: the loop goes on to the next record of
\* the batch, and after the last record the call returns Ok and main goes on.
\* Each step of the loop tries the record the loop is at.
C11_CopyFailureSkipsFile ==
    [][ /\ Placing =>
             /\ op'.id = batch[idx].id
             /\ op'.src = SourcePath(batch[idx])
        /\ (Placing /\ op'.outcome = "copy") =>
             /\ fs' = fs
             /\ pc' # "failed"
             /\ IF idx < Len(batch)
                THEN pc' = pc /\ idx' = idx + 1 /\ batch' = batch
                ELSE IF pc = "files_copy" /\ args.track_duplicates /\ duplicates # <<>>
                THEN pc' = "dupes_meta" /\ batch' = duplicates
                ELSE pc' = "done" ]_vars

\* C11 witness: the run is over, the copy of the first record of the batch
\* failed (nothing is at its destination) and the last record was placed.
C11_Witness ==
    /\ pc = "done"
    /\ args.rename_style = "None"
    /\ Len(batch) >= 2
    /\ faults = 1
    /\ ~process_err
    /\ SourcePath(batch[1]) # SingleDestination(batch[1])
    /\ SingleDestination(batch[1]) \notin DOMAIN fs
    /\ op.kind = "single"
    /\ op.id = batch[Len(batch)].id
    /\ op.outcome = "ok"
    /\ op.dst \in DOMAIN fs

\* The records the path pass has handled so far.
Processed == { k \in 1..Len(files) : files[k].destination_local_path # "" }

\* The number of distinct group ids among the first k records.
GroupRank(k) == Cardinality({ scanned[j].group_id : j \in 1..k })

\* The first record of a group id.
FirstOf(g) ==
    CHOOSE k \in 1..Len(scanned) :
      /\ scanned[k].group_id = g
      /\ \A j \in 1..(k - 1) : scanned[j].group_id # g

\* C12: under group_style = Incremental a group id has the number of its
\* rank among the distinct group ids in first-seen order, every record of
\* it gets the folder group_ followed by that number in four digits, two
\* group ids never have one number ...
C12_GroupNumbersInv ==
    args.group_style = "Incremental" =>
      /\ \A g \in DOMAIN group_counters :
           group_counters[g] = GroupRank(FirstOf(g))
      /\ \A g, h \in DOMAIN group_counters :
           g # h => group_counters[g] # group_counters[h]
      /\ \A k \in Processed :
           /\ files[k].group_id \in DOMAIN group_counters
           /\ files[k].destination_local_path
                = "group_" \o Fmt04(GroupRank(FirstOf(files[k].group_id)))
           /\ GroupRank(FirstOf(files[k].group_id)) >= 1

\* ... and a number, once assigned, never changes.
C12_GroupNumbersFirstSeen ==
    /\ []C12_GroupNumbersInv
    /\ [][ \A g \in DOMAIN group_counters :
             g \in DOMAIN group_counters'
               /\ group_counters'[g] = group_counters[g] ]_vars

\* C12 witness: three records were processed, the third of the group of
\* the first with another group in between; the folders are group_0001,
\* group_0002, group_0001.
C12_Witness ==
    /\ args.group_style = "Incremental"
    /\ Processed = {1, 2, 3}
    /\ files[1].group_id = files[3].group_id
    /\ files[2].group_id # files[1].group_id
    /\ files[1].destination_local_path = "group_0001"
    /\ files[2].destination_local_path = "group_0002"
    /\ files[3].destination_local_path = "group_0001"

\* The number of records of the group of record k among the first k records.
RankInGroup(k) ==
    Cardinality({ j \in 1..k : scanned[j].group_id = scanned[k].group_id })

Hashed == pc \notin {"scan", "hash", "store"}

\* C14: under rename_style = ShortHash a processed record with a hash is
\* named by the first 8 characters of the hash and one without a hash keeps
\* the name it was scanned with.  A record is without a hash only when its
\* own hashing failed: the others are hashed, each with the digest of its
\* file, and when no directory creation fails all are path-derived.
C14_ShortHashFallback ==
    /\ args.rename_style = "ShortHash" =>
         \A k \in Processed :
           files[k].filename = IF files[k].hash # None
                               THEN Prefix(files[k].hash, 8)
                               ELSE scanned[k].filename
    /\ Hashed =>
         /\ \A k \in 1..Len(files) :
              files[k].hash \in {None, hash_file(fs0[SourcePath(scanned[k])])}
         /\ Cardinality({ k \in 1..Len(files) : files[k].hash = None }) <= faults
    /\ (Hashed /\ pc # "paths" /\ ~process_err) => Processed = 1..Len(files)

\* C14 witness: the hashing of the first record failed; it kept its name,
\* and the second record was hashed and renamed to 8 characters of its hash.
C14_Witness ==
    /\ args.rename_style = "ShortHash"
    /\ Hashed /\ pc # "paths"
    /\ Len(files) >= 2
    /\ Processed = 1..Len(files)
    /\ files[1].hash = None
    /\ files[1].filename = scanned[1].filename
    /\ files[2].hash # None
    /\ files[2].filename = Prefix(files[2].hash, 8)
    /\ files[2].filename # scanned[2].filename

\* The number of records without a hash of the group of record k among the
\* first k records.
HashlessRankInGroup(k) ==
    Cardinality({ j \in 1..k : /\ scanned[j].group_id = scanned[k].group_id
                               /\ files[j].hash = None })

MetadataEmitted ==
    /\ todo_groups = {}
    /\ \A k \in 1..Len(batch) :
         LET g == batch[k].group_id
             group_files == GroupFiles(batch, g)
             dir == YeehawDir(group_files)
         IN /\ MetadataPath(dir, g, batch[k]) \in DOMAIN yaml
            /\ yaml[MetadataPath(dir, g, batch[k])].kind = "file"
            /\ \E j \in 1..Len(group_files) :
                 yaml[MetadataPath(dir, g, batch[k])].body = Serialize(group_files[j])
            /\ SummaryPath(dir, g) \in DOMAIN yaml
            /\ yaml[SummaryPath(dir, g)].body = GroupSummary(g, group_files)

\* C16: whenever Mover::move_files or Mover::move_duplicates is about to
\* place a file, the metadata of every group of its batch has been written;
\* a data file is created, overwritten or removed only in such a step, and
\* the metadata loop of a call never runs once its file loop has begun.
C16_MetadataBeforePlacement ==
    /\ [](Placing => MetadataEmitted)
    /\ [][ /\ fs' # fs => (Placing /\ MetadataEmitted)
           /\ (Placing /\ pc' \in {"files_meta", "dupes_meta"})
                => (pc = "files_copy" /\ pc' = "dupes_meta" /\ idx = Len(batch)) ]_vars

\* C16 witness: move_files has written the metadata of two groups and has
\* placed the file of the first record; the second is next.
C16_Witness ==
    /\ pc = "files_copy"
    /\ idx = 2
    /\ batch[1].group_id # batch[2].group_id
    /\ MetadataEmitted
    /\ op.id = batch[1].id
    /\ op.outcome = "ok"
    /\ op.dst \in DOMAIN fs

\* The records of a vector with a group id, as names {filename}.{extension}.
NamesOf(v, g) ==
    LET group_files == GroupFiles(v, g)
    IN [k \in DOMAIN group_files |->
          group_files[k].filename \o "." \o group_files[k].extension]

\* C17: after a run that is not dry and in which nothing failed, the
\* summary in the .yeehaw directory of each group with placed originals
\* lists the records main handed to Mover::move_files for that group: as
\* many, with their names.
C17_SummaryListsPlacedFiles ==
    (pc = "done" /\ ~args.dry /\ ~op_failed /\ Len(files) > 0) =>
      \A g \in GroupsOf(Placed) :
        LET path == SummaryPath(YeehawDir(GroupFiles(Placed, g)), g)
        IN /\ path \in DOMAIN yaml
           /\ yaml[path].body.group_id = g
           /\ yaml[path].body.file_count = Len(GroupFiles(Placed, g))
           /\ yaml[path].body.files = NamesOf(Placed, g)

\* The records handed to the Mover in a finished run, each with the vector
\* it was handed over in.
Handed ==
    { <<Placed, k>> : k \in 1..Len(Placed) }
      \cup (IF args.track_duplicates
            THEN { <<duplicates, k>> : k \in 1..Len(duplicates) } ELSE {})

\* The per-file metadata record Mover::write_group_metadata writes for a
\* record of a vector.
RecordPath(h) ==
    LET file == h[1][h[2]]
    IN MetadataPath(YeehawDir(GroupFiles(h[1], file.group_id)), file.group_id, file)

\* C18: after a run that is not dry and in which the environment made
\* nothing fail, every record handed to the Mover, original or duplicate,
\* has its own per-file metadata record, holding its fields.
C18_OneRecordPerPlacedFile ==
    (pc = "done" /\ ~args.dry /\ faults = 0 /\ Len(files) > 0) =>
      /\ \A h \in Handed :
           /\ RecordPath(h) \in DOMAIN yaml
           /\ yaml[RecordPath(h)].body = Serialize(h[1][h[2]])
      /\ \A h1, h2 \in Handed : h1 # h2 => RecordPath(h1) # RecordPath(h2)

\* Whether a path is a directory or lies under it.
Under(path, dir) == strip_prefix(path, dir) # None

\* C19: without track_duplicates the Store stays empty, the Mover is never
\* in move_duplicates, the batch of move_files is the whole files vector,
\* one record per discovered file, and nothing exists under
\* destination_dir/_dupes.
C19_NoTrackingNoDupes ==
    ~args.track_duplicates =>
      /\ inserted = <<>> /\ originals = <<>> /\ duplicates = <<>>
      /\ hash_map = EmptyMap
      /\ pc \notin {"insert", "dupes_meta", "dupes_copy"}
      /\ op.kind # "dupe"
      /\ pc \in {"files_meta", "files_copy"} =>
           /\ batch = files
           /\ Ids(batch) = [k \in 1..Len(scanned) |-> k]
      /\ \A p \in DOMAIN fs \cup DOMAIN yaml \cup dirs :
           ~Under(p, Join(destination_dir, "_dupes"))

\* C19 witness: a run without tracking has placed two records with one
\* hash, both as originals.
C19_Witness ==
    /\ ~args.track_duplicates
    /\ pc = "done"
    /\ Len(batch) >= 2
    /\ batch[1].hash # None
    /\ batch[1].hash = batch[2].hash
    /\ SingleDestination(batch[1]) # SingleDestination(batch[2])
    /\ SingleDestination(batch[1]) \in DOMAIN fs
    /\ SingleDestination(batch[2]) \in DOMAIN fs
    /\ op.kind = "single"

\* ------------------------------------------------- the Scanner on its own
\* Scanner::scan, one loop iteration at a time, over trees that hold nested
\* directories, names without an extension, directories that cannot be read
\* and entries that cannot be read.

\* Most regular files in a tree of the stand-alone Scanner specification.
MaxScanFiles == 2
\* Most unreadable directories and entries in such a tree.
MaxUnreadable == 2

\* The file names a directory may hold; "c" has no extension.
ScanNames == {"a.txt", "b.md", "c"}
\* The glob patterns scan is called with.
Patterns == {"*", "*.txt", "?.md", "c"}
\* The sets of directories a tree may have below source_dir.
ScanDirSets ==
    { D \in SUBSET {"/in/a", "/in/a/d", "/in/b"} : "/in/a/d" \in D => "/in/a" \in D }

\* glob::Pattern::matches with the default MatchOptions, for patterns made of
\* literal characters, '?' and '*'.
RECURSIVE Matches(_, _)
Matches(pattern, name) ==
    IF pattern = "" THEN name = ""
    ELSE LET p == SubSeq(pattern, 1, 1)
             ps == SubSeq(pattern, 2, Len(pattern))
         IN IF p = "*"
            THEN Matches(ps, name)
                 \/ (name # "" /\ Matches(pattern, SubSeq(name, 2, Len(name))))
            ELSE /\ name # ""
                 /\ p = "?" \/ p = SubSeq(name, 1, 1)
                 /\ Matches(ps, SubSeq(name, 2, Len(name)))

\* Path::file_name of a path below source_dir.
file_name(path) == SubSeq(path, Len(Parent(path)) + 2, Len(path))

\* The position of the last '.' of a name, 0 when it has none.
LastDot(name) ==
    LET dots == { k \in 1..Len(name) : SubSeq(name, k, k) = "." }
    IN IF dots = {} THEN 0 ELSE CHOOSE k \in dots : \A j \in dots : j <= k

\* Path::extension: None without a '.', and for a name whose only '.' leads.
extension(name) ==
    IF LastDot(name) <= 1 THEN None
    ELSE SubSeq(name, LastDot(name) + 1, Len(name))

\* Path::file_stem
file_stem(name) ==
    IF LastDot(name) <= 1 THEN name
    ELSE SubSeq(name, 1, LastDot(name) - 1)

\* A scanner that matches the pattern against the stem alone.
matches_file_stem(path) == Matches(query, file_stem(file_name(path)))

\* scan's test of one regular file: the pattern against the base name.
matches_file_name(path) == Matches(query, file_name(path))

\* YeeFile::from_path(root_path, path) of a path below source_dir, as the
\* sequence of the records it yields: none for a name without an extension.
from_file_path(path, id) ==
    LET name == file_name(path)
        local == strip_prefix(Parent(path), source_dir)
    IN IF extension(name) = None \/ local = None THEN <<>>
       ELSE << [ from_path(local, file_stem(name), extension(name), id)
                   EXCEPT !.source_full_path = Parent(path) ] >>

\* The entries fs::read_dir(dir) iterates over.
EntriesOf(dir) == { p \in DOMAIN fs \cup dirs : p # dir /\ Parent(p) = dir }

\* The orders in which read_dir may hand out the entries of a directory.
EntryOrders(dir) ==
    LET n == Cardinality(EntriesOf(dir))
    IN { o \in [1..n -> EntriesOf(dir)] : \A i, j \in 1..n : i # j => o[i] # o[j] }

\* A scan that gives up at the first directory it cannot read.
AbortOnReadError(rest) == <<>>

\* The queue after read_dir returned Err: the directory is dropped.
OnReadError(rest) == rest

\* One iteration of scan's loop: pop the last directory pushed, read it, push
\* its sub-directories and append a record for each regular file that is
\* readable, matches and yields a record.
ScanDir ==
    /\ pc = "scan"
    /\ queue # <<>>
    /\ LET dir == queue[Len(queue)]
           rest == SubSeq(queue, 1, Len(queue) - 1)
       IN /\ reads' = Append(reads, dir)
          /\ IF dir \in unreadable
             THEN /\ queue' = OnReadError(rest)
                  /\ UNCHANGED files
             ELSE \E o \in EntryOrders(dir) :
                    LET subdirs == SelectSeq(o, LAMBDA p : p \in dirs)
                        found == SelectSeq(o, LAMBDA p :
                                     /\ p \notin unreadable
                                     /\ p \in DOMAIN fs
                                     /\ matches_file_name(p)
                                     /\ from_file_path(p, 0) # <<>>)
                    IN /\ queue' = rest \o subdirs
                       /\ files' = files \o
                            [k \in 1..Len(found) |->
                                from_file_path(found[k], Len(files) + k)[1]]
    /\ pc' = IF queue' = <<>> THEN "scanned" ELSE "scan"
    /\ scanned' = files'
    /\ UNCHANGED << args, diskVars, metaVars, storeVars, idx, batch, todo_groups,
                    process_err, faults, op_failed, op, fs0, query, unreadable >>

\* The trees of the stand-alone Scanner specification.
ScanTrees(D) ==
    LET slots == { Join(d, n) : d \in D \cup {source_dir}, n \in ScanNames }
    IN UNION { [P -> {<<120>>}] :
                 P \in { Q \in SUBSET slots : Cardinality(Q) <= MaxScanFiles } }

\* Before scan is called: nothing is known of the tree yet.
InitScanner ==
    /\ args \in { a \in ArgsSet : a.dry /\ a.track_duplicates /\ ~a.copy_mode
                                  /\ a.rename_style = "None"
                                  /\ a.group_style = "ShortHash" }
    /\ query = "*"
    /\ dirs = {source_dir}
    /\ fs = EmptyMap
    /\ fs0 = fs
    /\ unreadable = {}
    /\ queue = <<>>
    /\ reads = <<>>
    /\ yaml = EmptyMap
    /\ files = <<>>
    /\ group_counters = EmptyMap
    /\ file_counters = EmptyMap
    /\ originals = <<>>
    /\ duplicates = <<>>
    /\ hash_map = EmptyMap
    /\ pc = "call"
    /\ idx = 0
    /\ batch = <<>>
    /\ todo_groups = {}
    /\ process_err = FALSE
    /\ faults = 0
    /\ op_failed = FALSE
    /\ op = NoOp
    /\ ret = FALSE
    /\ inserted = <<>>
    /\ scanned = <<>>

\* The call scan(root_dir, pattern): the pattern is compiled and the root is
\* pushed; the tree below the root is whatever the disk holds at that time.
ScanCall ==
    /\ pc = "call"
    /\ query' \in Patterns
    /\ \E D \in ScanDirSets :
         /\ dirs' = D \cup {source_dir}
         /\ fs' \in ScanTrees(D)
    /\ fs0' = fs'
    /\ unreadable' \in { U \in SUBSET (dirs' \cup DOMAIN fs') :
                           Cardinality(U) <= MaxUnreadable }
    /\ queue' = <<source_dir>>
    /\ pc' = "scan"
    /\ UNCHANGED << args, yaml, files, metaVars, storeVars, idx, batch,
                    todo_groups, process_err, faults, op_failed, op, scanned,
                    reads >>

NextScanner == ScanCall \/ ScanDir

ScannerSpec == InitScanner /\ [][NextScanner]_vars

\* The pop that starts an iteration of scan's loop.  Only ScanDir changes
\* reads, and ScanDir can run exactly when the queue can be popped.
PopQueue ==
    /\ pc = "scan"
    /\ queue # <<>>
    /\ reads' = Append(reads, queue[Len(queue)])

\* scan is a sequential loop: while the queue holds a directory the next
\* iteration runs.  Within ScannerSpec a step that pops the queue is a
\* ScanDir step, so this is weak fairness of ScanDir.
ScannerFairSpec == ScannerSpec /\ WF_reads(PopQueue)

\* A directory scan reaches: it and every directory between it and
\* source_dir can be read.
Reachable(dir) ==
    \A d \in AllDirs(dir) : (d = source_dir \/ Under(d, source_dir)) => d \notin unreadable

\* The number of records scan returned for the file at a path.
RecordsFor(path) ==
    Cardinality({ k \in 1..Len(files) : SourcePath(files[k]) = path })

\* C21 as stated: when scan has returned, every regular file of a readable
\* directory has a record if and only if its base name matches the pattern,
\* and then exactly one.
C21_RecordIffMatches ==
    pc = "scanned" =>
        \A p \in DOMAIN fs :
            Reachable(Parent(p)) =>
                RecordsFor(p) = (IF Matches(query, file_name(p)) THEN 1 ELSE 0)

\* C21, amended: when scan has returned, every regular file of a readable
\* directory has exactly one record if its entry can be read, its base name
\* (extension included) matches the pattern and the name has an extension,
\* and no record otherwise.
C21_RecordIffMatchesAndHasExtension ==
    pc = "scanned" =>
        \A p \in DOMAIN fs :
            Reachable(Parent(p)) =>
                RecordsFor(p) =
                    (IF /\ p \notin unreadable
                        /\ Matches(query, file_name(p))
                        /\ LastDot(file_name(p)) > 1
                     THEN 1 ELSE 0)

\* scan has returned under the pattern "*" from a tree where one file of a
\* readable directory got its one record and another, whose name matches but
\* has no extension, got none.
C21_Witness ==
    /\ pc = "scanned"
    /\ query = "*"
    /\ \E p, q \in DOMAIN fs :
         /\ Reachable(Parent(p)) /\ RecordsFor(p) = 1
         /\ Reachable(Parent(q)) /\ RecordsFor(q) = 0
         /\ q \notin unreadable
         /\ Matches(query, file_name(q))
         /\ extension(file_name(q)) = None

\* The files scan must return: regular files of a reachable directory whose
\* entry can be read and whose base name matches the pattern.
Matching == { p \in DOMAIN fs : /\ Reachable(Parent(p))
                                /\ p \notin unreadable
                                /\ Matches(query, file_name(p)) }

\* No directory is read twice.
ReadOnce == \A i, j \in DOMAIN reads : i # j => reads[i] # reads[j]

\* C23 as stated: a scan that was called returns, no directory is read more
\* than once, and
\* when scan has returned every matching file of every readable directory
\* reachable from the root has been returned, whatever could not be read.
C23_TerminatesAndReturnsEveryMatch ==
    /\ (pc = "scan") ~> (pc = "scanned")
    /\ [](ReadOnce)
    /\ [](pc = "scanned" => \A p \in Matching : RecordsFor(p) >= 1)

\* C23, amended: a scan that was called returns, no directory is read more
\* than once, and
\* when scan has returned every matching file with an extension of every
\* readable directory reachable from the root has been returned, whatever
\* could not be read.
C23_TerminatesAndReturnsEveryRecord ==
    /\ (pc = "scan") ~> (pc = "scanned")
    /\ [](ReadOnce)
    /\ [](pc = "scanned" =>
            \A p \in Matching : LastDot(file_name(p)) > 1 => RecordsFor(p) >= 1)

\* scan has returned after a read_dir failed and an entry was unreadable, and
\* a matching file of a directory read after the failure has its record.
C23_Witness ==
    /\ pc = "scanned"
    /\ \E i, j \in DOMAIN reads :
         /\ i < j
         /\ reads[i] \in unreadable
         /\ \E p \in Matching : Parent(p) = reads[j] /\ RecordsFor(p) = 1
    /\ \E q \in DOMAIN fs : q \in unreadable /\ Reachable(Parent(q))

\* ---------------------------------------------------- hashing on its own
\* Meta::process's first pass over two files whose contents are longer than
\* one byte, so that a reader can hand them out in more than one way.

\* Most bytes in a file of the stand-alone hashing specification.
MaxBytes == 2

RECURSIVE ByteSeqs(_)
ByteSeqs(n) ==
    IF n = 0 THEN {<<>>}
    ELSE ByteSeqs(n - 1) \cup
         { Append(b, x) : b \in { c \in ByteSeqs(n - 1) : Len(c) = n - 1 },
                          x \in {120, 121} }

\* The two files hashed: a/A.txt and b/A.txt.
HashFiles == << from_path("a", "A", "txt", 1), from_path("b", "A", "txt", 2) >>

InitHash ==
    /\ args \in { a \in ArgsSet : a.dry /\ a.track_duplicates /\ ~a.copy_mode
                                  /\ a.rename_style = "None"
                                  /\ a.group_style = "ShortHash" }
    /\ fs \in [ { SourcePath(HashFiles[k]) : k \in 1..2 } -> ByteSeqs(MaxBytes) ]
    /\ fs0 = fs
    /\ dirs = TreeDirs(fs)
    /\ yaml = EmptyMap
    /\ files = HashFiles
    /\ scanned = files
    /\ group_counters = EmptyMap
    /\ file_counters = EmptyMap
    /\ originals = <<>>
    /\ duplicates = <<>>
    /\ hash_map = EmptyMap
    /\ pc = "hash"
    /\ idx = 1
    /\ batch = <<>>
    /\ todo_groups = {}
    /\ process_err = FALSE
    /\ faults = 0
    /\ op_failed = FALSE
    /\ op = NoOp
    /\ ret = FALSE
    /\ inserted = <<>>
    /\ query = "*"
    /\ queue = <<>>
    /\ unreadable = {}
    /\ reads = <<>>

NextHash == HashStep

HashSpec == InitHash /\ [][NextHash]_vars

\* C22: when the hashing pass is over, two files with the same bytes that
\* were both hashed have the same digest, however the reader split them.
C22_SameContentSameDigest ==
    pc = "paths" =>
        \A i, j \in 1..Len(files) :
            ( /\ files[i].hash # None
              /\ files[j].hash # None
              /\ fs[SourcePath(files[i])] = fs[SourcePath(files[j])] )
            => files[i].hash = files[j].hash

\* ------------------------------------------------------ order of the stages
\* The stage of main a control point belongs to: scan, hashing pass, path
\* pass, Store::insert_batch, Mover::move_files, Mover::move_duplicates, end.
Stage(p) ==
    CASE p = "scan" -> 0
      [] p = "hash" -> 1
      [] p = "paths" -> 2
      [] p = "insert" -> 3
      [] p \in {"files_meta", "files_copy"} -> 4
      [] p \in {"dupes_meta", "dupes_copy"} -> 5
      [] OTHER -> 6

\* A step that sets the hash of a record, and one that derives a record's
\* destination path or name.
HashSet == \E k \in DOMAIN files : files'[k].hash # files[k].hash
Derived ==
    \E k \in DOMAIN files :
        \/ files'[k].destination_full_path # files[k].destination_full_path
        \/ files'[k].destination_local_path # files[k].destination_local_path
        \/ files'[k].filename # files[k].filename

\* C24: the stages of a run never overlap.  Control never goes back to an
\* earlier stage; hashes are set only in the hashing pass, which is left
\* after its last record; paths, names and counters are derived only in the
\* path pass; records are inserted only in the Store stage, which is left
\* when every record has been classified; originals are placed only by
\* move_files and duplicates only by move_duplicates, which starts when
\* move_files has handled its last original.
C24_StagesInOrder ==
    [][ /\ Stage(pc') >= Stage(pc)
        /\ HashSet => Stage(pc) = 1
        /\ (Stage(pc) = 1 /\ Stage(pc') > 1) => (idx = Len(files) /\ Stage(pc') = 2)
        /\ (Derived \/ metaVars' # metaVars) => Stage(pc) = 2
        /\ inserted' # inserted => Stage(pc) = 3
        /\ (Stage(pc) = 3 /\ Stage(pc') > 3) => Len(inserted') = Len(files)
        /\ (op' # op /\ op'.kind = "single")
              => (Stage(pc) = 4 /\ (args.track_duplicates => Len(inserted) = Len(files)))
        /\ (op' # op /\ op'.kind = "dupe") => Stage(pc) = 5
        /\ (Stage(pc) = 4 /\ Stage(pc') = 5)
              => (pc = "files_copy" /\ idx = Len(batch) /\ batch = originals)
      ]_vars

\* A duplicate has been placed in a run of at least three records, one of
\* which was placed as an original.
C24_Witness ==
    /\ pc \in {"dupes_copy", "done"}
    /\ op # NoOp
    /\ op.kind = "dupe"
    /\ op.outcome = "ok"
    /\ Len(files) >= 3
    /\ Len(originals) >= 2
    /\ \A k \in DOMAIN files : files[k].destination_full_path # ""

\* C25: the path the Mover reads a record's file from (and removes in move
\* mode) is the path at which the Scanner discovered the file, under every
\* rename_style.
C25_MoverReadsDiscoveredPath ==
    (op # NoOp /\ op.kind \in {"single", "dupe"}) =>
        op.src = SourcePath(scanned[op.id])

\* C26: within one run the destination paths process_single_file uses for
\* the originals are pairwise distinct, and so are the destination paths
\* process_duplicate_file uses for the duplicates.
C26_DestinationsDistinct ==
    /\ pc = "files_copy" =>
         \A i, j \in DOMAIN batch :
             i # j => SingleDestination(batch[i]) # SingleDestination(batch[j])
    /\ pc = "dupes_copy" =>
         \A i, j \in DOMAIN batch :
             i # j => DuplicateDestination(batch[i]) # DuplicateDestination(batch[j])

\* C27: in move mode, when the run has ended, the bytes of every file the
\* source tree held before the run are still at its source path or at some
\* path under destination_dir, whatever the records were and whatever each
\* copy and each removal did.
C27_NoContentLost ==
    (pc \in {"done", "failed"} /\ ~args.dry /\ ~args.copy_mode) =>
        \A p \in DOMAIN fs0 :
            \/ p \in DOMAIN fs /\ fs[p] = fs0[p]
            \/ \E q \in DOMAIN fs : Under(q, destination_dir) /\ fs[q] = fs0[p]

====
